---- MODULE Spec2Model ----
(***************************************************************************)
(* Wave-function-collapse Sudoku (src/src/main.rs): the Cell and Grid      *)
(* operations and the step driver of main's frame loop.                    *)
(*                                                                         *)
(* A Vec is a sequence (Rust index i is TLA+ index i + 1); Grid.cells is a *)
(* function on 0..80 so that cell indices keep the source's numbering.     *)
(* Result<(), ()> is the boolean field ok.  thread_rng is the model's only *)
(* nondeterminism: a draw is the position picked in the slice or iterator. *)
(***************************************************************************)
EXTENDS Integers, Sequences, FiniteSets

\* -------------------------------------------------------------- constants
NumCells == 81
NumValues == 9

\* ----------------------------------------------------------------- bounds
\* The random draws explored: a draw of the first position is always
\* explored; a step in which some draw is not the first position is explored
\* at most MaxDeviations times in one grid's lifetime, and then only up to
\* position MaxCellPick (tie-break) and MaxValuePick (collapse).
MaxDeviations == 1
MaxCellPick == 2
MaxValuePick == 5

VARIABLES
    grid,       \* main's `grid`: Grid.cells, 0..80 -> Cell
    frame,      \* what the last frame of main's loop did
    pass,       \* the propagate call of the last step, as it returned
    rngUsed,    \* steps of this grid's lifetime with a draw past the first position
    unit,       \* a single Cell / index operation applied on its own
    age,        \* steps taken on this grid since Grid::new() made it
    overridden  \* what the tick block did in a frame whose grid the reset key replaced

vars == <<grid, frame, pass, rngUsed, unit, age, overridden>>

Indices == 0 .. (NumCells - 1)
IndexSeq == [k \in 1 .. NumCells |-> k - 1]
Values == 1 .. NumValues

MinOf(a, b) == IF a <= b THEN a ELSE b

\* ------------------------------------------------------------------- Cell
\* Mutant of CellDefault: the range 1..9 taken as exclusive of its end.
CellDefault_exclusive ==
    [possible_values |-> [k \in 1 .. NumValues - 1 |-> k], propagated |-> FALSE]

CellDefault ==
    [possible_values |-> [k \in 1 .. NumValues |-> k], propagated |-> FALSE]

\* Mutant of collapse: the value returned is read before the assignment.
collapse_stale_return(c, pick) ==
    LET n == Len(c.possible_values)
        c2 == IF n > 1
              THEN [c EXCEPT !.possible_values = <<c.possible_values[pick]>>]
              ELSE c
    IN  [cell |-> c2, value |-> c.possible_values[1]]

\* Mutant of collapse: the cell is left as it is.
collapse_noop(c, pick) == [cell |-> c, value |-> c.possible_values[1]]

\* Mutant of collapse: the drawn position is stored in place of the value
\* at that position.
collapse_position_as_value(c, pick) ==
    LET n == Len(c.possible_values)
        c2 == IF n > 1
              THEN [c EXCEPT !.possible_values = <<pick>>]
              ELSE c
    IN  [cell |-> c2, value |-> c2.possible_values[1]]

\* Cell::collapse with the draw `pick` (a position of possible_values) made
\* by choose(); returns the cell and the value returned.
collapse(c, pick) ==
    LET n == Len(c.possible_values)
        c2 == IF n > 1
              THEN [c EXCEPT !.possible_values = <<c.possible_values[pick]>>]
              ELSE c
    IN  [cell |-> c2, value |-> c2.possible_values[1]]

\* Mutant of remove_possibility: the guard is len() > 0, so the last
\* candidate is filtered out as well.
remove_possibility_unguarded(c, value) ==
    [cell |-> [c EXCEPT !.possible_values =
                  SelectSeq(@, LAMBDA val : val # value)],
     ok |-> TRUE]

\* Mutant of remove_possibility: the singleton test is inverted.
remove_possibility_inverted(c, value) ==
    IF Len(c.possible_values) > 1
    THEN [cell |-> [c EXCEPT !.possible_values =
                        SelectSeq(@, LAMBDA val : val # value)],
          ok |-> TRUE]
    ELSE IF c.possible_values[1] # value
         THEN [cell |-> c, ok |-> FALSE]
         ELSE [cell |-> c, ok |-> TRUE]

\* Mutant of remove_possibility: a singleton is never reported, Ok(()) is
\* returned in every case.
remove_possibility_no_err(c, value) ==
    IF Len(c.possible_values) > 1
    THEN [cell |-> [c EXCEPT !.possible_values =
                        SelectSeq(@, LAMBDA val : val # value)],
          ok |-> TRUE]
    ELSE [cell |-> c, ok |-> TRUE]

\* Cell::remove_possibility; ok = FALSE is Err(()).
remove_possibility(c, value) ==
    IF Len(c.possible_values) > 1
    THEN [cell |-> [c EXCEPT !.possible_values =
                        SelectSeq(@, LAMBDA val : val # value)],
          ok |-> TRUE]
    ELSE IF c.possible_values[1] = value
         THEN [cell |-> c, ok |-> FALSE]
         ELSE [cell |-> c, ok |-> TRUE]

\* ------------------------------------------------------------------- Grid
GridNew == [i \in Indices |-> CellDefault]

is_resolve(cells) ==
    ~ \E i \in Indices : Len(cells[i].possible_values) > 1

iter_row(idx) == SelectSeq(IndexSeq, LAMBDA i : idx \div 9 = i \div 9)

iter_col(idx) == SelectSeq(IndexSeq, LAMBDA i : idx % 9 = i % 9)

\* Mutant of get_square_idx: the column taken modulo 3 instead of divided.
get_square_idx_mod3(idx) == 27 * ((idx \div 9) \div 3) + 3 * ((idx % 9) % 3)

get_square_idx(idx) == 27 * ((idx \div 9) \div 3) + 3 * ((idx % 9) \div 3)

iter_square(idx) ==
    SelectSeq(IndexSeq, LAMBDA i : get_square_idx(i) = get_square_idx(idx))

\* Mutant of PeersOf: the third loop iterates iter_row again.
PeersOf_row_twice ==
    [idx \in Indices |-> iter_col(idx) \o iter_row(idx) \o iter_row(idx)]

\* The three loops of propagate visit iter_col, then iter_row, then
\* iter_square of idx: 27 peers in this order, evaluated once per index.
PeersOf ==
    [idx \in Indices |-> iter_col(idx) \o iter_row(idx) \o iter_square(idx)]

\* Mutant of fold_min: collapsed cells are not skipped.
fold_min_no_skip(cells) ==
    LET lens == {9} \cup {Len(cells[i].possible_values) : i \in Indices}
    IN  CHOOSE m \in lens : \A n \in lens : m <= n

\* Mutant of fold_min: the fold starts from 8.
fold_min_from_8(cells) ==
    LET lens == {8} \cup ({Len(cells[i].possible_values) : i \in Indices} \ {1})
    IN  CHOOSE m \in lens : \A n \in lens : m <= n

\* The fold of get_lowest_entropy_cell_idx: the least length among the cells
\* whose length is not 1, starting from 9.
fold_min(cells) ==
    LET lens == {9} \cup ({Len(cells[i].possible_values) : i \in Indices} \ {1})
    IN  CHOOSE m \in lens : \A n \in lens : m <= n

\* get_lowest_entropy_cell_idx up to its draw: the indices its filter_map
\* yields, in order; choose() returns one of them.
lowest_entropy_candidates(cells) ==
    LET min == fold_min(cells)
    IN  SelectSeq(IndexSeq, LAMBDA i : Len(cells[i].possible_values) = min)

\* Mutant of end_propagation: the markers are left as they are.
end_propagation_keep(cells) == cells

end_propagation(cells) ==
    [i \in Indices |-> [cells[i] EXCEPT !.propagated = FALSE]]

\* Grid::propagate, run with its call stack explicit.  A traversal state is
\*   cells    Grid.cells
\*   ok       FALSE once a remove_possibility returned Err: every `?` then
\*            returns, so nothing more is executed
\*   stack    the active calls of propagate whose cell was a singleton, the
\*            innermost last: idx, cell_value and pos, the position in
\*            PeersOf[idx] of the next peer of its loops
\*   emptied  some remove_possibility left an empty candidate set
\*   marked   the indices marked propagated, in order
\*   removals the number of remove_possibility calls made
\*   err_at   removals and Len(marked) when the first Err was returned
\*   collapsed_before  the singletons when the outermost call was made
\* Mutant of call_propagate: a cell that was a singleton before the outermost
\* call is entered only as that call's own cell.
call_propagate_new_only(st, idx) ==
    IF /\ Len(st.cells[idx].possible_values) = 1
       /\ (st.stack = <<>> \/ idx \notin st.collapsed_before)
    THEN [st EXCEPT !.cells[idx].propagated = TRUE,
                    !.stack = Append(@, [idx |-> idx,
                                         cell_value |-> st.cells[idx].possible_values[1],
                                         pos |-> 1]),
                    !.marked = Append(@, idx)]
    ELSE st

\* Entering propagate(idx): lines 112-114.
call_propagate(st, idx) ==
    IF Len(st.cells[idx].possible_values) = 1
    THEN [st EXCEPT !.cells[idx].propagated = TRUE,
                    !.stack = Append(@, [idx |-> idx,
                                         cell_value |-> st.cells[idx].possible_values[1],
                                         pos |-> 1]),
                    !.marked = Append(@, idx)]
    ELSE st

\* Mutant of propagate_step: the recursive call on the peer is left out.
propagate_step_no_recursion(st) ==
    LET depth == Len(st.stack)
        top == st.stack[depth]
    IN  IF top.pos > Len(PeersOf[top.idx])
        THEN [st EXCEPT !.stack = SubSeq(@, 1, depth - 1)]
        ELSE LET idx == PeersOf[top.idx][top.pos]
                 next == [st EXCEPT !.stack[depth].pos = @ + 1]
             IN  IF st.cells[idx].propagated THEN next
                 ELSE LET r == remove_possibility(st.cells[idx], top.cell_value)
                      IN  IF ~ r.ok
                          THEN [next EXCEPT !.ok = FALSE,
                                            !.removals = @ + 1,
                                            !.err_at = IF st.ok
                                                       THEN <<st.removals + 1,
                                                              Len(st.marked)>>
                                                       ELSE @]
                          ELSE [next EXCEPT !.cells[idx] = r.cell,
                                            !.removals = @ + 1,
                                            !.emptied = @ \/ Len(r.cell.possible_values) = 0]

\* Mutant of propagate_step: the marker of a cell is cleared when its call
\* returns instead of at the end of the pass.
propagate_step_unmark_on_return(st) ==
    LET depth == Len(st.stack)
        top == st.stack[depth]
    IN  IF top.pos > Len(PeersOf[top.idx])
        THEN [st EXCEPT !.stack = SubSeq(@, 1, depth - 1),
                        !.cells[top.idx].propagated = FALSE]
        ELSE LET idx == PeersOf[top.idx][top.pos]
                 next == [st EXCEPT !.stack[depth].pos = @ + 1]
             IN  IF st.cells[idx].propagated THEN next
                 ELSE LET r == remove_possibility(st.cells[idx], top.cell_value)
                      IN  IF ~ r.ok
                          THEN [next EXCEPT !.ok = FALSE,
                                            !.removals = @ + 1,
                                            !.err_at = IF st.ok
                                                       THEN <<st.removals + 1,
                                                              Len(st.marked)>>
                                                       ELSE @]
                          ELSE call_propagate(
                                 [next EXCEPT !.cells[idx] = r.cell,
                                              !.removals = @ + 1,
                                              !.emptied = @ \/ Len(r.cell.possible_values) = 0],
                                 idx)

\* One iteration of a loop of the innermost call (lines 116-133): the peer
\* at pos is skipped when propagated; otherwise remove_possibility, `?`,
\* and the recursive call.  Past the last peer the call returns Ok(()).
propagate_step(st) ==
    LET depth == Len(st.stack)
        top == st.stack[depth]
    IN  IF top.pos > Len(PeersOf[top.idx])
        THEN [st EXCEPT !.stack = SubSeq(@, 1, depth - 1)]
        ELSE LET idx == PeersOf[top.idx][top.pos]
                 next == [st EXCEPT !.stack[depth].pos = @ + 1]
             IN  IF st.cells[idx].propagated THEN next
                 ELSE LET r == remove_possibility(st.cells[idx], top.cell_value)
                      IN  IF ~ r.ok
                          THEN [next EXCEPT !.ok = FALSE,
                                            !.removals = @ + 1,
                                            !.err_at = IF st.ok
                                                       THEN <<st.removals + 1,
                                                              Len(st.marked)>>
                                                       ELSE @]
                          ELSE call_propagate(
                                 [next EXCEPT !.cells[idx] = r.cell,
                                              !.removals = @ + 1,
                                              !.emptied = @ \/ Len(r.cell.possible_values) = 0],
                                 idx)

\* Mutant of returned: an Err is kept but the loops are not left.
returned_stack_only(st) == st.stack = <<>>

\* The outermost call has returned: by an Err passed up by every `?`, or by
\* the end of its loops.
returned(st) == ~ st.ok \/ st.stack = <<>>

\* At most n iterations from st, stopping when the outermost call returned.
RECURSIVE run(_, _)
run(st, n) ==
    IF returned(st) THEN st
    ELSE IF n = 1 THEN propagate_step(st)
    ELSE run(run(st, n \div 2), n - (n \div 2))

\* Each cell is marked at most once in a call, and a marked cell's loops
\* take 27 iterations and one return.
PassFuel == NumCells * (27 + 1)

propagate(cells, idx) ==
    run(call_propagate([cells |-> cells, ok |-> TRUE, stack |-> <<>>,
                        emptied |-> FALSE, marked |-> <<>>,
                        removals |-> 0, err_at |-> <<>>,
                        collapsed_before |->
                            {i \in Indices : Len(cells[i].possible_values) = 1}],
                       idx),
        PassFuel)

\* ------------------------------------------------------------ step driver
NoPass == [result |-> "none", idx |-> -1, value |-> 0, cells |-> GridNew,
           emptied |-> FALSE, marked |-> <<>>, removals |-> 0, err_at |-> <<>>,
           collapsed_before |-> {}, finished |-> TRUE]

\* What is kept of a tick block whose grid the key block replaced: the
\* result of its propagate call, whether that call had returned, the
\* removals it made and the collapsed cells of the grid it left.
NoTick == [result |-> "none", finished |-> TRUE, removals |-> 0, collapsed |-> 0]

tick_of(r) ==
    [result |-> r.pass.result, finished |-> r.pass.finished,
     removals |-> r.pass.removals,
     collapsed |-> Cardinality({i \in Indices : Len(r.grid[i].possible_values) = 1})]

\* What is kept of the call propagate(cell_idx) that ended in st.
pass_of(st, cell_idx, value) ==
    [result |-> IF st.ok THEN "ok" ELSE "err",
     idx |-> cell_idx, value |-> value,
     cells |-> st.cells, emptied |-> st.emptied, marked |-> st.marked,
     removals |-> st.removals, err_at |-> st.err_at,
     collapsed_before |-> st.collapsed_before, finished |-> returned(st)]

\* Mutant of step: on Err the grid is kept, only its markers cleared.
step_keeps_grid(cells, cpick, vpick) ==
    LET cell_idx == lowest_entropy_candidates(cells)[cpick]
        c == collapse(cells[cell_idx], vpick)
        st == propagate([cells EXCEPT ![cell_idx] = c.cell], cell_idx)
    IN  [grid |-> end_propagation(st.cells),
         pass |-> pass_of(st, cell_idx, c.value)]

\* The body of `if !grid.is_resolve() { ... }` with the two draws made:
\* cpick the position drawn among the lowest-entropy indices, vpick the
\* position drawn in the chosen cell's possible_values.
step(cells, cpick, vpick) ==
    LET cell_idx == lowest_entropy_candidates(cells)[cpick]
        c == collapse(cells[cell_idx], vpick)
        st == propagate([cells EXCEPT ![cell_idx] = c.cell], cell_idx)
    IN  [grid |-> IF st.ok THEN end_propagation(st.cells) ELSE GridNew,
         pass |-> pass_of(st, cell_idx, c.value)]

\* Mutant of StepResolved: a resolved grid is replaced by a new one.
StepResolved_restart ==
    /\ is_resolve(grid)
    /\ grid' = GridNew
    /\ frame' = "resolved"
    /\ pass' = NoPass
    /\ rngUsed' = 0
    /\ age' = 0
    /\ UNCHANGED <<unit, overridden>>

\* A frame whose tick elapsed, on a resolved grid: nothing is done.
StepResolved ==
    /\ is_resolve(grid)
    /\ frame' = "resolved"
    /\ pass' = NoPass
    /\ overridden' = NoTick
    /\ UNCHANGED <<grid, rngUsed, unit, age>>

\* A frame whose tick elapsed, on an unresolved grid.
StepCollapse ==
    /\ ~ is_resolve(grid)
    /\ \E cpick \in 1 .. MinOf(Len(lowest_entropy_candidates(grid)), MaxCellPick) :
         LET cell_idx == lowest_entropy_candidates(grid)[cpick]
         IN  \E vpick \in 1 .. MinOf(Len(grid[cell_idx].possible_values), MaxValuePick) :
               LET dev == IF cpick > 1 \/ vpick > 1 THEN 1 ELSE 0
                   r == step(grid, cpick, vpick)
               IN  /\ rngUsed + dev <= MaxDeviations
                   /\ grid' = r.grid
                   /\ pass' = r.pass
                   /\ frame' = "step"
                   /\ rngUsed' = IF r.pass.result = "ok" THEN rngUsed + dev ELSE 0
                   /\ age' = IF r.pass.result = "ok" THEN age + 1 ELSE 0
    /\ overridden' = NoTick
    /\ UNCHANGED unit

\* The draws explored for a step on cells: positions <<cpick, vpick>>.
Draws(cells, used) ==
    {d \in (1 .. MinOf(Len(lowest_entropy_candidates(cells)), MaxCellPick))
             \X (1 .. MaxValuePick) :
        /\ d[2] <= Len(cells[lowest_entropy_candidates(cells)[d[1]]].possible_values)
        /\ used + (IF d[1] > 1 \/ d[2] > 1 THEN 1 ELSE 0) <= MaxDeviations}

\* The tick block (lines 219-231) of a frame whose tick elapsed or not, with
\* the draws d: the grid it leaves and the propagate call it made.
tick_block(cells, elapsed, d) ==
    IF elapsed /\ ~ is_resolve(cells)
    THEN step(cells, d[1], d[2])
    ELSE [grid |-> cells, pass |-> NoPass]

\* The key block (lines 233-235) of a frame in which the key was pressed.
key_block(cells) == GridNew

\* Mutant of ResetKey: the key block runs before the tick block.
ResetKey_before_tick ==
    /\ \E elapsed \in BOOLEAN :
         \E d \in (IF elapsed THEN Draws(GridNew, 0) ELSE {<<1, 1>>}) :
            LET r == tick_block(key_block(grid), elapsed, d)
            IN  /\ grid' = r.grid
                /\ overridden' = tick_of(r)
    /\ frame' = "reset"
    /\ pass' = NoPass
    /\ rngUsed' = 0
    /\ age' = 0
    /\ UNCHANGED unit

\* A frame in which RESET_GRID_KEY was pressed: the tick block, if the tick
\* elapsed, runs to its end first, and the key block replaces its grid.
ResetKey ==
    /\ \E elapsed \in BOOLEAN :
         \E d \in (IF elapsed /\ ~ is_resolve(grid)
                    THEN Draws(grid, rngUsed) ELSE {<<1, 1>>}) :
            LET r == tick_block(grid, elapsed, d)
            IN  /\ grid' = key_block(r.grid)
                /\ overridden' = tick_of(r)
    /\ frame' = "reset"
    /\ pass' = NoPass
    /\ rngUsed' = 0
    /\ age' = 0
    /\ UNCHANGED unit

\* ------------------------------------------- operations applied on their own
\* unit records one application: op, the cell before (pre) and after (cell),
\* the argument (arg), the value or sequence returned (ret) and ok.
NoUnit == [op |-> "none", pre |-> CellDefault, cell |-> CellDefault,
           arg |-> 0, ret |-> <<>>, ok |-> TRUE]

\* The candidate vectors a cell can hold: the non-empty subsequences of 1..9.
SeqOfSet(S) == SelectSeq([k \in 1 .. NumValues |-> k], LAMBDA v : v \in S)

UnitCells ==
    {[possible_values |-> SeqOfSet(S), propagated |-> p] :
        S \in (SUBSET Values) \ {{}}, p \in BOOLEAN}

UnitCollapse ==
    /\ \E pick \in 1 .. Len(unit.cell.possible_values) :
         LET r == collapse(unit.cell, pick)
         IN  unit' = [op |-> "collapse", pre |-> unit.cell, cell |-> r.cell,
                      arg |-> pick, ret |-> <<r.value>>, ok |-> TRUE]
    /\ UNCHANGED <<grid, frame, pass, rngUsed, age, overridden>>

UnitRemove ==
    /\ \E value \in Values :
         LET r == remove_possibility(unit.cell, value)
         IN  unit' = [op |-> "remove_possibility", pre |-> unit.cell,
                      cell |-> r.cell, arg |-> value, ret |-> <<>>, ok |-> r.ok]
    /\ UNCHANGED <<grid, frame, pass, rngUsed, age, overridden>>

UnitIterRow ==
    /\ \E idx \in Indices :
         unit' = [NoUnit EXCEPT !.op = "iter_row", !.arg = idx, !.ret = iter_row(idx)]
    /\ UNCHANGED <<grid, frame, pass, rngUsed, age, overridden>>

UnitIterCol ==
    /\ \E idx \in Indices :
         unit' = [NoUnit EXCEPT !.op = "iter_col", !.arg = idx, !.ret = iter_col(idx)]
    /\ UNCHANGED <<grid, frame, pass, rngUsed, age, overridden>>

UnitIterSquare ==
    /\ \E idx \in Indices :
         unit' = [NoUnit EXCEPT !.op = "iter_square", !.arg = idx,
                                !.ret = iter_square(idx)]
    /\ UNCHANGED <<grid, frame, pass, rngUsed, age, overridden>>

\* --------------------------------------------------------- specifications
Init ==
    /\ grid = GridNew
    /\ frame = "start"
    /\ pass = NoPass
    /\ rngUsed = 0
    /\ unit = NoUnit
    /\ age = 0
    /\ overridden = NoTick

\* A frame in which neither the tick elapsed nor the key was pressed leaves
\* the grid as it is: a stuttering step.
Next == StepResolved \/ StepCollapse \/ ResetKey

\* main: the frame loop from Grid::new().
Spec == Init /\ [][Next]_vars

InitCell ==
    /\ grid = GridNew
    /\ frame = "start"
    /\ pass = NoPass
    /\ rngUsed = 0
    /\ age = 0
    /\ overridden = NoTick
    /\ \E c \in UnitCells : unit = [NoUnit EXCEPT !.pre = c, !.cell = c]

NextCell == UnitCollapse \/ UnitRemove

\* Cell::collapse and Cell::remove_possibility on any candidate vector.
SpecCell == InitCell /\ [][NextCell]_vars

NextIter == UnitIterRow \/ UnitIterCol \/ UnitIterSquare

\* Grid::iter_row, iter_col and iter_square on any index.
SpecIter == Init /\ [][NextIter]_vars

\* Outcomes of thread_rng under which the driver never resolves a grid: every
\* draw is the first position, except that once in each grid's lifetime,
\* after `age` steps, the draws are positions <<cpick, vpick>> of one of the
\* triples <<age, cpick, vpick>> below.
RetryDeviations ==
    { <<2, 2, 5>>,
      <<3, 1, 4>>, <<3, 1, 5>>, <<3, 2, 4>>, <<3, 2, 5>>,
      <<4, 1, 3>>, <<4, 1, 4>>, <<4, 1, 5>>, <<4, 2, 3>>, <<4, 2, 4>>, <<4, 2, 5>>,
      <<5, 1, 2>>, <<5, 1, 3>>, <<5, 1, 4>>, <<5, 2, 1>>,
      <<8, 1, 4>>, <<8, 1, 5>>, <<8, 2, 4>>, <<8, 2, 5>>,
      <<9, 1, 3>>, <<9, 1, 4>>, <<9, 1, 5>>, <<9, 2, 3>>, <<9, 2, 4>>, <<9, 2, 5>>,
      <<10, 1, 2>>, <<10, 1, 3>>, <<10, 1, 4>> }

RetryLastAge ==
    CHOOSE a \in {t[1] : t \in RetryDeviations} :
        \A t \in RetryDeviations : t[1] <= a

\* The draws of the step taken after a steps when used steps of this grid
\* have drawn past the first position.
RetryDraws(a, used) ==
    IF used > 0
    THEN {<<1, 1>>}
    ELSE {<<t[2], t[3]>> : t \in {u \in RetryDeviations : u[1] = a}}
            \cup (IF a < RetryLastAge THEN {<<1, 1>>} ELSE {})

\* A frame whose tick elapsed and in which no key was pressed, under these
\* outcomes of the draws (lines 219-231).
StepRetry ==
    /\ \E d \in (IF is_resolve(grid) THEN {<<1, 1>>} ELSE RetryDraws(age, rngUsed)) :
          LET r == tick_block(grid, TRUE, d)
              dev == IF d = <<1, 1>> THEN 0 ELSE 1
          IN  /\ grid' = r.grid
              /\ pass' = r.pass
              /\ frame' = IF is_resolve(grid) THEN "resolved" ELSE "step"
              /\ rngUsed' = IF r.pass.result = "err" THEN 0 ELSE rngUsed + dev
              /\ age' = CASE r.pass.result = "ok" -> age + 1
                           [] r.pass.result = "err" -> 0
                           [] OTHER -> age
    /\ overridden' = NoTick
    /\ UNCHANGED unit

NextRetry == StepRetry

\* main's loop with the key never pressed, under the outcomes above.  The
\* loop never stops taking frames and the tick elapses in infinitely many of
\* them, so the step is taken again and again: weak fairness of StepRetry,
\* which is enabled in every state, written without ENABLED.
SpecRetry == Init /\ [][NextRetry]_vars /\ []<><<StepRetry>>_vars

\* ----------------------------------------------------------------- claims
RangeOf(seq) == {seq[k] : k \in 1 .. Len(seq)}

\* i and j lie in the same row, the same column or the same 3x3 box.
SameRow(i, j) == i \div 9 = j \div 9
SameCol(i, j) == i % 9 = j % 9
SameBox(i, j) ==
    /\ (i \div 9) \div 3 = (j \div 9) \div 3
    /\ (i % 9) \div 3 = (j % 9) \div 3
SharesGroup(i, j) == SameRow(i, j) \/ SameCol(i, j) \/ SameBox(i, j)

Collapsed(cells) == {i \in Indices : Len(cells[i].possible_values) = 1}

\* All 81 cells hold 1..9 in full and none is marked propagated.
IsFresh(cells) ==
    /\ DOMAIN cells = 0 .. 80
    /\ \A i \in 0 .. 80 :
         /\ cells[i].possible_values = <<1, 2, 3, 4, 5, 6, 7, 8, 9>>
         /\ cells[i].propagated = FALSE

\* C1: after a propagate(idx) of the step driver that returned Ok, no other
\* collapsed cell in the row, column or box of idx holds the value of idx.
C1_NoCollapsedPeerHoldsValue ==
    pass.result = "ok" =>
        \A j \in Indices :
            (j # pass.idx /\ SharesGroup(j, pass.idx)) =>
                pass.cells[j].possible_values # <<pass.value>>

\* C2: after a propagate(idx) that returned Ok, every cell in the row, column
\* or box of idx that still has several candidates lacks the value of idx,
\* and no such peer is empty.
C2_OpenPeersLoseValue ==
    pass.result = "ok" =>
        \A j \in Indices :
            SharesGroup(j, pass.idx) =>
                /\ Len(pass.cells[j].possible_values) >= 1
                /\ Len(grid[j].possible_values) >= 1
                /\ Len(pass.cells[j].possible_values) > 1 =>
                       pass.value \notin RangeOf(pass.cells[j].possible_values)
                /\ Len(grid[j].possible_values) > 1 =>
                       pass.value \notin RangeOf(grid[j].possible_values)

\* Index 0 was collapsed to 5 on a fresh grid: 1, 9 and 10 hold 1..9 less 5.
C2_Witness ==
    /\ pass.result = "ok"
    /\ pass.idx = 0
    /\ pass.value = 5
    /\ Collapsed(grid) = {0}
    /\ \A j \in {1, 9, 10} : grid[j].possible_values = <<1, 2, 3, 4, 6, 7, 8, 9>>

\* C3: when propagate returned Err in a step, the grid the driver holds after
\* the step is a fresh one: nothing of the pass survives.
C3_ContradictionGivesFreshGrid ==
    (frame = "step" /\ pass.result = "err") => IsFresh(grid)

\* A pass that failed after it had removed candidates and marked cells.
C3_Witness ==
    /\ frame = "step"
    /\ pass.result = "err"
    /\ \E j \in Indices : j # pass.idx /\ Len(pass.cells[j].possible_values) < 9
    /\ \E j \in Indices : pass.cells[j].propagated
    /\ IsFresh(grid)

\* C4: no candidate set is ever empty: not in the grid between frames, not
\* after any remove_possibility inside a pass, not when a pass fails.
C4_NoEmptyCandidateSet ==
    /\ \A i \in Indices : Len(grid[i].possible_values) >= 1
    /\ \A i \in Indices : Len(pass.cells[i].possible_values) >= 1
    /\ ~ pass.emptied

\* A pass failed on a singleton, after removals that produced singletons.
C4_Witness ==
    /\ pass.result = "err"
    /\ Len(pass.marked) > 1
    /\ \A i \in Indices : Len(pass.cells[i].possible_values) >= 1

\* C5: once every cell has exactly one candidate, a frame that is not a
\* manual reset leaves the grid (candidates and markers) as it is.
C5_ResolvedIsTerminal ==
    [][((\A i \in Indices : Len(grid[i].possible_values) = 1) /\ frame' # "reset")
          => grid' = grid]_vars

\* A step was taken on a resolved grid.
C5_Witness ==
    /\ frame = "resolved"
    /\ \A i \in Indices : Len(grid[i].possible_values) = 1

\* C6: remove_possibility(v) on a singleton returns Err when it holds v and
\* Ok otherwise, the cell unchanged in both cases; on several candidates it
\* returns Ok and the candidates are the old ones less v, in order.
C6_RemovePossibility ==
    unit.op = "remove_possibility" =>
        LET old == unit.pre.possible_values
            new == unit.cell.possible_values
        IN  /\ unit.cell.propagated = unit.pre.propagated
            /\ Len(old) = 1 => /\ unit.cell = unit.pre
                               /\ unit.ok <=> old[1] # unit.arg
            /\ Len(old) > 1 => /\ unit.ok
                               /\ RangeOf(new) = RangeOf(old) \ {unit.arg}
                               /\ Len(new) = Cardinality(RangeOf(new))
                               /\ \A k \in 1 .. Len(new) - 1 : new[k] < new[k + 1]
                               /\ unit.arg \notin RangeOf(old) => new = old

\* Err on a singleton holding the value removed.
C6_Witness ==
    /\ unit.op = "remove_possibility"
    /\ ~ unit.ok
    /\ unit.pre.possible_values = <<unit.arg>>
    /\ unit.cell = unit.pre

\* C7: a grid just made by Grid::new() has 81 cells, each holding 1..9 and
\* not propagated, and is_resolve() is false on it.
C7_NewGrid ==
    (frame \in {"start", "reset"} \/ (frame = "step" /\ pass.result = "err")) =>
        /\ IsFresh(grid)
        /\ Cardinality(DOMAIN grid) = 81
        /\ ~ is_resolve(grid)

\* Grid::new() was called by main after the grid had been worked on.
C7_Witness ==
    /\ frame = "reset"
    /\ IsFresh(grid)
    /\ ~ is_resolve(grid)

\* C8: on an unresolved grid the indices get_lowest_entropy_cell_idx draws
\* from are exactly the cells with several candidates whose count is least
\* among such cells: each of them can be returned, a collapsed cell cannot.
C8_LowestEntropyChoice ==
    (\E i \in Indices : Len(grid[i].possible_values) > 1) =>
        LET open == {i \in Indices : Len(grid[i].possible_values) > 1}
            least == {i \in open : \A j \in open :
                         Len(grid[i].possible_values) <= Len(grid[j].possible_values)}
        IN  /\ RangeOf(lowest_entropy_candidates(grid)) = least
            /\ least # {}
            /\ least \cap Collapsed(grid) = {}

\* A grid with collapsed cells, and open cells above the least count, on
\* which the least count is shared by several cells.
C8_Witness ==
    /\ pass.result = "ok"
    /\ Collapsed(grid) # {}
    /\ Len(lowest_entropy_candidates(grid)) > 1
    /\ \E i \in Indices :
         /\ Len(grid[i].possible_values) > 1
         /\ i \notin RangeOf(lowest_entropy_candidates(grid))

\* C9: iter_row, iter_col and iter_square of an index yield 9 indices in
\* ascending order, the index among them: the cells of its row (index / 9),
\* of its column (index % 9) and of its 3x3 box.
C9_PeerIterators ==
    LET idx == unit.arg
        out == unit.ret
        shape == /\ Len(out) = 9
                 /\ \A k \in 1 .. 8 : out[k] < out[k + 1]
                 /\ idx \in RangeOf(out)
        box(i) == 27 * ((i \div 9) \div 3) + 3 * ((i % 9) \div 3)
    IN  /\ unit.op = "iter_row" =>
              /\ shape
              /\ RangeOf(out) = {i \in 0 .. 80 : SameRow(i, idx)}
              /\ idx = 0 => (1 \in RangeOf(out) /\ 9 \notin RangeOf(out)
                                                /\ 10 \notin RangeOf(out))
        /\ unit.op = "iter_col" =>
              /\ shape
              /\ RangeOf(out) = {i \in 0 .. 80 : SameCol(i, idx)}
              /\ idx = 0 => (9 \in RangeOf(out) /\ 1 \notin RangeOf(out)
                                                /\ 10 \notin RangeOf(out))
        /\ unit.op = "iter_square" =>
              /\ shape
              /\ RangeOf(out) = {i \in 0 .. 80 : SameBox(i, idx)}
              /\ RangeOf(out) = {i \in 0 .. 80 : box(i) = box(idx)}
              /\ idx = 0 => 10 \in RangeOf(out)

\* iter_square of an index in the middle box.
C9_Witness ==
    /\ unit.op = "iter_square"
    /\ unit.arg = 40
    /\ unit.ret = <<30, 31, 32, 39, 40, 41, 48, 49, 50>>

\* C10: collapse() leaves exactly one candidate, one of those held before,
\* and returns it; on a singleton it changes nothing and returns its value.
C10_Collapse ==
    unit.op = "collapse" =>
        /\ Len(unit.cell.possible_values) = 1
        /\ unit.cell.possible_values[1] \in RangeOf(unit.pre.possible_values)
        /\ unit.ret = unit.cell.possible_values
        /\ unit.cell.propagated = unit.pre.propagated
        /\ Len(unit.pre.possible_values) = 1 => unit.cell = unit.pre

\* A collapse of four candidates to the third of them.
C10_Witness ==
    /\ unit.op = "collapse"
    /\ unit.pre.possible_values = <<2, 5, 7, 9>>
    /\ unit.arg = 3
    /\ unit.cell.possible_values = <<7>>
    /\ unit.ret = <<7>>

\* C11: the reset key acts only once the step of its frame, if there was
\* one, has run to its return (success or contradiction), and the grid it
\* leaves is Grid::new() whatever the grid was and whatever that step did.
C11_ResetBetweenSteps ==
    frame = "reset" =>
        /\ grid = GridNew
        /\ IsFresh(grid)
        /\ overridden.finished
        /\ overridden.result = "ok" => overridden.collapsed >= 1

\* A reset in the frame of a successful step that had collapsed a cell and
\* cut candidates from its peers: the step's grid is gone.
C11_Witness ==
    /\ frame = "reset"
    /\ overridden.result = "ok"
    /\ overridden.removals >= 20
    /\ overridden.collapsed >= 2
    /\ grid = GridNew

\* C12: between frames no cell of the grid is marked propagated.
C12_NoMarkerAtStepBoundary ==
    \A i \in Indices : grid[i].propagated = FALSE

\* A successful step whose propagate call had marked several cells, all
\* of them unmarked in the grid the step left.
C12_Witness ==
    /\ frame = "step"
    /\ pass.result = "ok"
    /\ Len(pass.marked) >= 3
    /\ \A k \in 1 .. Len(pass.marked) : pass.cells[pass.marked[k]].propagated
    /\ \A i \in Indices : ~ grid[i].propagated

\* C13 as stated: in a propagate call no cell that was collapsed before the
\* call, other than the call's own cell, is marked propagated.
C13_OnlyNewSingletonsRecurse ==
    pass.result # "none" =>
        RangeOf(pass.marked) \cap (pass.collapsed_before \ {pass.idx}) = {}

\* C13 amended: the recursion enters every singleton it meets that is not
\* yet marked, collapsed before the call or reduced to one candidate in it.
\* Every marked cell is a singleton; when the call returns Ok every
\* singleton sharing a group with a marked cell is marked, and so is every
\* cell the call reduced to a singleton.
C13_EverySingletonMetRecurses ==
    pass.result # "none" =>
        /\ \A i \in RangeOf(pass.marked) : Len(pass.cells[i].possible_values) = 1
        /\ pass.result = "ok" =>
              /\ \A i \in RangeOf(pass.marked) : \A j \in Indices :
                    (SharesGroup(i, j) /\ Len(pass.cells[j].possible_values) = 1)
                        => j \in RangeOf(pass.marked)
              /\ \A j \in Indices :
                    (Len(pass.cells[j].possible_values) = 1
                        /\ j \notin pass.collapsed_before)
                        => j \in RangeOf(pass.marked)

\* A call that returned Ok after marking both a peer collapsed in an earlier
\* step and a cell that its own removals had reduced to a singleton.
C13_Witness ==
    /\ pass.result = "ok"
    /\ \E i \in RangeOf(pass.marked) :
          i # pass.idx /\ i \in pass.collapsed_before
    /\ \E j \in RangeOf(pass.marked) : j \notin pass.collapsed_before

\* C14: every propagate call of the driver returns, having marked each cell
\* at most once: at most 81 cells broadcast, each to at most the 24 entries
\* of its three groups that are not itself.
C14_PropagateTerminates ==
    pass.result # "none" =>
        /\ pass.finished
        /\ Len(pass.marked) <= NumCells
        /\ Cardinality(RangeOf(pass.marked)) = Len(pass.marked)
        /\ pass.removals <= 24 * Len(pass.marked)

\* A call that returned Ok after fifty cells, all peers of peers of one
\* another, had each been marked once.
C14_Witness ==
    /\ pass.result = "ok"
    /\ pass.finished
    /\ Len(pass.marked) >= 50
    /\ Cardinality(RangeOf(pass.marked)) = Len(pass.marked)

\* C15: the remove_possibility call that returns Err is the last one of the
\* pass, and no cell is marked after it.
C15_ErrAbortsPropagation ==
    pass.result = "err" =>
        /\ pass.finished
        /\ pass.err_at = <<pass.removals, Len(pass.marked)>>

\* A contradiction found inside a nested call, with a removal left undone:
\* some open cell still holds the value of a marked cell of one of its groups.
C15_Witness ==
    /\ pass.result = "err"
    /\ Len(pass.marked) >= 2
    /\ \E i \in RangeOf(pass.marked) : \E j \in Indices :
          /\ SharesGroup(i, j)
          /\ Len(pass.cells[j].possible_values) > 1
          /\ pass.cells[i].possible_values[1] \in RangeOf(pass.cells[j].possible_values)

\* C16: a frame either leaves a brand-new grid or leaves every cell with a
\* subset of the candidates it had; a collapsed cell then keeps its value.
C16_CandidatesNeverGrow ==
    [][ \/ grid' = GridNew
        \/ \A i \in Indices :
              /\ RangeOf(grid'[i].possible_values)
                    \subseteq RangeOf(grid[i].possible_values)
              /\ Len(grid[i].possible_values) = 1
                    => grid'[i].possible_values = grid[i].possible_values
      ]_vars

\* A grid several successful steps old: collapsed cells next to cells that
\* have lost some but not all of their candidates.
C16_Witness ==
    /\ frame = "step"
    /\ pass.result = "ok"
    /\ age >= 3
    /\ Cardinality(Collapsed(grid)) >= 3
    /\ \E i \in Indices : Len(grid[i].possible_values) \in 2 .. 7

\* C17: every cell of the grid, and of the grid a propagate call worked
\* on, has a candidate at position 0; a grid is resolved exactly when all
\* cells are singletons, and on a grid that is not, the indices
\* get_lowest_entropy_cell_idx chooses from are at least one, each of a cell
\* with two or more candidates.
C17_ChoiceNeverEmpty ==
    /\ \A i \in Indices :
          /\ Len(grid[i].possible_values) >= 1
          /\ Len(pass.cells[i].possible_values) >= 1
    /\ is_resolve(grid) <=> Collapsed(grid) = Indices
    /\ ~ is_resolve(grid) =>
          /\ Len(lowest_entropy_candidates(grid)) >= 1
          /\ \A k \in 1 .. Len(lowest_entropy_candidates(grid)) :
                Len(grid[lowest_entropy_candidates(grid)[k]].possible_values) >= 2
    /\ frame = "step" => pass.idx \in Indices /\ pass.value \in Values

\* The tightest choice: one open cell left to choose, with two candidates.
C17_Witness ==
    /\ frame = "step"
    /\ ~ is_resolve(grid)
    /\ fold_min(grid) = 2
    /\ Len(lowest_entropy_candidates(grid)) = 1

\* C19: in the grid between frames, the value of every collapsed cell,
\* whenever it was collapsed, is absent from every cell of its row, column
\* and box that still has more than one candidate.
C19_SingletonsEliminatedFromOpenPeers ==
    \A c \in Indices :
        Len(grid[c].possible_values) = 1 =>
            \A j \in Indices :
                (SharesGroup(c, j) /\ Len(grid[j].possible_values) > 1)
                    => grid[c].possible_values[1] \notin RangeOf(grid[j].possible_values)

\* A successful step whose removals reduced another cell to a singleton,
\* that cell having an open peer left, among cells collapsed in earlier steps.
C19_Witness ==
    /\ frame = "step"
    /\ pass.result = "ok"
    /\ age >= 2
    /\ \E c \in Collapsed(grid) \ pass.collapsed_before :
          \E j \in Indices : SharesGroup(c, j) /\ Len(grid[j].possible_values) > 1

\* C20: a step ends in a fresh grid after a contradiction or leaves more
\* collapsed cells than it found; the steps taken on a grid since
\* Grid::new() never outnumber its collapsed cells, so there are at most 81
\* and after 81 the grid is resolved.
C20_StepProgressOrRestart ==
    [][ frame' = "step" =>
          /\ \/ pass'.result = "err" /\ grid' = GridNew /\ age' = 0
             \/ /\ pass'.result = "ok"
                /\ Cardinality(Collapsed(grid')) > Cardinality(Collapsed(grid))
                /\ age' = age + 1
          /\ age' <= Cardinality(Collapsed(grid'))
          /\ age' <= NumCells
          /\ age' = NumCells => is_resolve(grid')
      ]_vars

\* The step that resolves a grid after a run of successful steps from
\* Grid::new(), fewer than 81 as cascades collapsed cells on the way.
C20_Witness ==
    /\ frame = "step"
    /\ pass.result = "ok"
    /\ is_resolve(grid)
    /\ age >= 1
    /\ age < NumCells

\* C18: there are outcomes of the random draws under which the loop, taking
\* a step in every frame with no key pressed, goes on for ever without
\* is_resolve() becoming true: again and again a contradiction replaces the
\* grid, and nothing counts or limits the restarts.
C18_RetriesWithoutEnd ==
    /\ [](~ is_resolve(grid))
    /\ []<>(frame = "step" /\ pass.result = "err" /\ grid = GridNew)
    /\ []<>(frame = "step" /\ pass.result = "ok")

\* The restart: a contradiction met after a run of steps, the driver back
\* in the state it started from.
C18_Witness ==
    /\ frame = "step"
    /\ pass.result = "err"
    /\ Len(pass.marked) >= 2
    /\ Cardinality(pass.collapsed_before) >= 19
    /\ grid = GridNew
    /\ age = 0
    /\ rngUsed = 0
====
